---- MODULE Spec2Model ----
(***************************************************************************)
(* Schedule cascade engine of CELLA-PM (src/App.tsx): cascadeSchedule,     *)
(* checkDependencies and the manual-edit / conflict handlers of App.       *)
(*                                                                         *)
(* Dates.  A date string "YYYY-MM-DD" is represented by its day number     *)
(* (days since 1970-01-01, which is day 0).  A JavaScript Date is an       *)
(* instant; instants are counted in hours since the epoch, i.e. the code's *)
(* milliseconds divided by 3 600 000.  Every instant the code computes is  *)
(* a whole number of hours: date strings parse to UTC midnights and zone   *)
(* offsets are whole hours.                                                *)
(***************************************************************************)
EXTENDS Integers, Sequences, FiniteSets, TLC

VARIABLES
    tasks,              \* project.tasks                       (App.tsx:78)
    conflict,           \* conflict state                      (App.tsx:135)
    pendingTaskUpdate,  \* held edit                           (App.tsx:140)
    zone,               \* the browser's local time zone (environment)
    lastAction,         \* name of the handler that ran last (history)
    edits,              \* number of manual edits submitted so far (history)
    proposedChanges,    \* proposedChanges state              (App.tsx:117)
    pendingNewTasks,    \* pendingNewTasks state              (App.tsx:118)
    messages,           \* metadata of the assistant messages (App.tsx:109)
    callerTasks,        \* cascadeSchedule: the task set the caller passed
    store,              \* cascadeSchedule: objects and arrays
    currentTasks,       \* cascadeSchedule: reference of the working array
    hasChanged,         \* cascadeSchedule: local hasChanged
    iterations,         \* cascadeSchedule: local iterations
    pc,                 \* cascadeSchedule: "call", "loop" or "done"
    clock,              \* Date.now(), counted in user events
    inFlight            \* handleSendMessage: the request awaiting its response
                        \* ([tasks |-> project.tasks as sent]), or NULL

vars == <<tasks, conflict, pendingTaskUpdate, zone, lastAction, edits,
          proposedChanges, pendingNewTasks, messages,
          callerTasks, store, currentTasks, hasChanged, iterations, pc,
          clock, inFlight>>

projectVars == <<clock, inFlight>>
proposalVars == <<proposedChanges, pendingNewTasks, messages>>
editVars == <<conflict, pendingTaskUpdate, zone, edits>>
appVars == <<tasks, conflict, pendingTaskUpdate, zone, lastAction, edits,
             proposedChanges, pendingNewTasks, messages, clock, inFlight>>
cascadeVars == <<callerTasks, store, currentTasks, hasChanged, iterations, pc>>

\* null: a record no task and no conflict record equals.
NULL == [null |-> TRUE]

-----------------------------------------------------------------------------
(* Bounds of the model                                                     *)

MaxDay == 2          \* input dates range over day 0 .. MaxDay
MaxEdges == 2        \* dependency entries of an input task set, in total
MaxEdits == 2        \* manual edits submitted in one behaviour of Spec (in
                     \* SpecProject: together with the events MaxClock counts)
MaxChanges == 2      \* affected_tasks entries of one AI response
MaxNewTasks == 1     \* created_tasks entries of one AI response
MaxMessages == 1     \* AI responses in one behaviour of SpecProposal
MaxTasks == 5        \* tasks of the project the model follows
MaxClock == 2        \* manual edits, insertions, deletions, module additions,
                     \* row drops and AI responses in one behaviour of SpecProject
MaxAffected == 1     \* affected_tasks entries of an AI response of SpecProject

TaskIds == <<"a", "b", "c">>   \* ids of the tasks of an input task set
UnknownId == "ghost"           \* an id no task has

-----------------------------------------------------------------------------
(* Program constants                                                       *)

MaxPasses == 50      \* iterations < 50
HoursPerDay == 24    \* 24 * 60 * 60 * 1000 ms
Epoch == 0           \* let maxDependencyEnd = 0

-----------------------------------------------------------------------------
(* Date conversions                                                        *)

\* new Date("YYYY-MM-DD").getTime(): a date-only string is UTC midnight.
DateParse(day) == day * HoursPerDay

\* date.toISOString().split('T')[0]: the UTC calendar day holding the instant.
ToISODate(instant) == instant \div HoursPerDay

\* Offset of local time from UTC at an instant, in hours.  A zone is
\* [std, dst, from, to]: offset dst for instants in from .. to-1, std otherwise.
ZoneOffset(z, instant) ==
    IF z.from <= instant /\ instant < z.to THEN z.dst ELSE z.std

\* date.setDate(date.getDate() + days): the local wall-clock reading moves by
\* whole calendar days and is mapped back to an instant; a wall-clock reading
\* that the zone skips is read with the offset in force before the jump.
SetDatePlus(z, instant, days) ==
    LET wall == instant + ZoneOffset(z, instant) + days * HoursPerDay
        viaDst == wall - z.dst
        viaStd == wall - z.std
    IN  IF ZoneOffset(z, viaDst) = z.dst THEN viaDst
        ELSE IF ZoneOffset(z, viaStd) = z.std THEN viaStd
        ELSE wall - z.std

\* addDays(dateStr, days)
addDays(z, dateStr, days) == ToISODate(SetDatePlus(z, DateParse(dateStr), days))

-----------------------------------------------------------------------------
(* Tasks                                                                   *)

Task(id, start, end, deps) ==
    [id |-> id, startDate |-> start, endDate |-> end, dependencies |-> deps,
     duration |-> end - start + 1, assignee |-> "qa", status |-> "Pending"]

Range(s) == {s[i] : i \in DOMAIN s}

RECURSIVE SumLen(_)
SumLen(ss) == IF ss = <<>> THEN 0 ELSE Len(Head(ss)) + SumLen(Tail(ss))

-----------------------------------------------------------------------------
(* Object store.  JavaScript arrays and objects are references: objs holds *)
(* the task objects, arrs the arrays (sequences of object references).     *)
(* Allocation appends, so a reference is an index.                         *)

NewStore(ts) == [objs |-> ts, arrs |-> <<[i \in 1..Len(ts) |-> i]>>]

\* The tasks an array currently holds.
Deref(st, a) == [i \in 1..Len(st.arrs[a]) |-> st.objs[st.arrs[a][i]]]

\* Garbage collection: objects no array refers to are dropped and the rest
\* renumbered.  No observable effect; it keeps the store small.  (No object
\* is ever shared by two arrays: every array element is a fresh object.)
RECURSIVE CollectFrom(_, _, _)
CollectFrom(st, k, acc) ==
    IF k > Len(st.arrs) THEN acc
    ELSE CollectFrom(st, k + 1,
             [objs |-> acc.objs \o Deref(st, k),
              arrs |-> Append(acc.arrs,
                          [i \in 1..Len(st.arrs[k]) |-> Len(acc.objs) + i])])

Collect(st) == CollectFrom(st, 1, [objs |-> <<>>, arrs |-> <<>>])

\* tasks.map(t => ({...t})): a new array of new objects.  (Faulty variant: no copy,
\* the working array is the caller's array.)
AliasTasks(st, a) == [st |-> st, arr |-> a]

CopyTasks(st, a) ==
    LET n == Len(st.arrs[a])
        base == Len(st.objs)
    IN  [st  |-> [objs |-> st.objs \o [i \in 1..n |-> st.objs[st.arrs[a][i]]],
                  arrs |-> Append(st.arrs, [i \in 1..n |-> base + i])],
         arr |-> Len(st.arrs) + 1]

\* taskMap.get(depId) for taskMap = new Map(currentTasks.map(t => [t.id, t])),
\* built from the array contents `snapshot` taken at the start of the pass:
\* the object of the last entry with that id, 0 when there is none.
TaskMapGet(st, snapshot, depId) ==
    LET hits == {i \in 1..Len(snapshot) : st.objs[snapshot[i]].id = depId}
    IN  IF hits = {} THEN 0
        ELSE snapshot[CHOOSE i \in hits : \A j \in hits : j <= i]

\* The entries of taskMap a row of the for loop looks up: taskMap is built
\* before the loop, so row i sees every row of the array.  (Faulty variant:
\* the map is filled while the rows are processed, row i sees the rows
\* before it.)
TaskMapFilledOnTheGo(snapshot, i) == SubSeq(snapshot, 1, i - 1)

TaskMapAt(snapshot, i) == snapshot

\* What an unknown dependency contributes.  (Faulty variant: it is taken to end on
\* the dependent task's own end date.)
MissingDepEndAsOwnEnd(task, acc) ==
    IF DateParse(task.endDate) > acc THEN DateParse(task.endDate) ELSE acc

MissingDepEnd(task, acc) == acc

\* task.dependencies.forEach(...): the running maximum of the dependencies'
\* end instants, starting from the epoch.
RECURSIVE MaxDependencyEnd(_, _, _, _, _)
MaxDependencyEnd(st, snapshot, task, k, acc) ==
    IF k > Len(task.dependencies) THEN acc
    ELSE LET dep == TaskMapGet(st, snapshot, task.dependencies[k])
             depEnd == DateParse(st.objs[dep].endDate)
         IN  MaxDependencyEnd(st, snapshot, task, k + 1,
                 IF dep = 0 THEN MissingDepEnd(task, acc)
                 ELSE IF depEnd > acc THEN depEnd ELSE acc)

\* currentStartMs < minStartMs  (Faulty variant: <=)
StartsTooEarlyOrOnTime(currentStartMs, minStartMs) == currentStartMs <= minStartMs

StartsTooEarly(currentStartMs, minStartMs) == currentStartMs < minStartMs

\* The shifted copy { ...task, startDate, endDate }.  (Faulty variants: the end
\* date is not moved; the shifted task is marked Delayed; the end date is
\* moved against the shift.)
ShiftedEndBackwards(task, minStartMs, shift) ==
    [task EXCEPT !.startDate = ToISODate(minStartMs),
                 !.endDate = ToISODate(DateParse(task.endDate) - shift)]

ShiftedAndDelayed(task, minStartMs, shift) ==
    [task EXCEPT !.startDate = ToISODate(minStartMs),
                 !.endDate = ToISODate(DateParse(task.endDate) + shift),
                 !.status = "Delayed"]

ShiftedStartOnly(task, minStartMs, shift) ==
    [task EXCEPT !.startDate = ToISODate(minStartMs)]

ShiftedTask(task, minStartMs, shift) ==
    [task EXCEPT !.startDate = ToISODate(minStartMs),
                 !.endDate = ToISODate(DateParse(task.endDate) + shift)]

\* minStartMs = maxDependencyEnd + (24 * 60 * 60 * 1000)
\* (Faulty variant: the day the dependency ends.)
MinStartSameDay(maxDependencyEnd) == maxDependencyEnd

MinStart(maxDependencyEnd) == maxDependencyEnd + HoursPerDay

\* hasChanged = true after a shift.  (Faulty variant: the flag is left alone.)
MarkChangedForgotten(changed) == changed

MarkChanged(changed) == TRUE

\* The body of the for loop from index i on; yields the store and hasChanged.
RECURSIVE CascadePass(_, _, _, _, _)
CascadePass(st, cur, snapshot, i, changed) ==
    IF i > Len(st.arrs[cur]) THEN [st |-> st, hasChanged |-> changed]
    ELSE
      LET task == st.objs[st.arrs[cur][i]]
          maxDependencyEnd ==
              MaxDependencyEnd(st, TaskMapAt(snapshot, i), task, 1, Epoch)
          minStartMs == MinStart(maxDependencyEnd)
          currentStartMs == DateParse(task.startDate)
          shift == minStartMs - currentStartMs
          ref == Len(st.objs) + 1
      IN  IF Len(task.dependencies) = 0
            THEN CascadePass(st, cur, snapshot, i + 1, changed)
          ELSE IF maxDependencyEnd > Epoch /\ StartsTooEarly(currentStartMs, minStartMs)
            THEN CascadePass(
                   [objs |-> Append(st.objs, ShiftedTask(task, minStartMs, shift)),
                    arrs |-> [st.arrs EXCEPT ![cur][i] = ref]],
                   cur, snapshot, i + 1, MarkChanged(changed))
          ELSE CascadePass(st, cur, snapshot, i + 1, changed)

\* while (hasChanged && iterations < 50)   (Faulty variant: iterations <= 50)
LoopGuardOffByOne(changed, n) == changed /\ n <= MaxPasses

LoopGuard(changed, n) == changed /\ n < MaxPasses

RECURSIVE CascadeLoop(_, _, _, _)
CascadeLoop(st, cur, changed, n) ==
    IF LoopGuard(changed, n)
      THEN LET r == CascadePass(st, cur, st.arrs[cur], 1, FALSE)
           IN  CascadeLoop(r.st, cur, r.hasChanged, n + 1)
      ELSE [st |-> st, arr |-> cur, iterations |-> n, hasChanged |-> changed]

\* cascadeSchedule on the array `a` of store `st`: the store afterwards, the
\* returned array and the number of passes.
CascadeRun(st, a) ==
    LET c == CopyTasks(st, a)
    IN  CascadeLoop(c.st, c.arr, TRUE, 0)

\* cascadeSchedule(tasks), by value.
cascadeSchedule(ts) ==
    LET r == CascadeRun(NewStore(ts), 1) IN Deref(r.st, r.arr)

-----------------------------------------------------------------------------
(* Task sets handed to cascadeSchedule                                     *)

DepIds == Range(TaskIds) \cup {UnknownId}

\* Dependency lists: no id twice, at most MaxEdges entries.
DepLists ==
    {d \in UNION {[1..n -> DepIds] : n \in 0..MaxEdges} :
        \A i, j \in DOMAIN d : d[i] = d[j] => i = j}

\* The dependencies of ts[i] that are tasks of ts.
PresentDeps(ts, i) ==
    {j \in DOMAIN ts : \E k \in DOMAIN ts[i].dependencies :
                          ts[i].dependencies[k] = ts[j].id}

\* No task depends on itself, directly or through other tasks: the tasks
\* can be ranked so that every present dependency ranks lower.
Acyclic(ts) ==
    \E rank \in [DOMAIN ts -> DOMAIN ts] :
        \A i \in DOMAIN ts : \A j \in PresentDeps(ts, i) : rank[j] < rank[i]

\* Date ranges of an input task: 0 <= startDate <= endDate <= MaxDay.
DateRanges == {r \in (0..MaxDay) \X (0..MaxDay) : r[1] <= r[2]}

\* Dependency lists of n tasks: at most MaxEdges entries in total; for a
\* set of Len(TaskIds) tasks, acyclic ones only.
DepConfigs(n) ==
    {d \in [1..n -> DepLists] :
        /\ SumLen(d) <= MaxEdges
        /\ n = Len(TaskIds) =>
              Acyclic([i \in 1..n |-> Task(TaskIds[i], 0, 0, d[i])])}

\* The task set with ids TaskIds[1..n], dependency lists d and date ranges r.
TaskSet(n, d, r) == [i \in 1..n |-> Task(TaskIds[i], r[i][1], r[i][2], d[i])]

\* Sizes of the input task sets: every set of two tasks and every acyclic
\* set of three is an input.
SetSizes == {Len(TaskIds) - 1, Len(TaskIds)}

UTC == [std |-> 0, dst |-> 0, from |-> 0, to |-> 0]

-----------------------------------------------------------------------------
(* SpecCascade: one call of cascadeSchedule, pass by pass                  *)

InitCascade ==
    /\ \E n \in SetSizes : \E d \in DepConfigs(n) : \E r \in [1..n -> DateRanges] :
          callerTasks = TaskSet(n, d, r)
    /\ store = NewStore(callerTasks)
    /\ currentTasks = 0
    /\ hasChanged = FALSE
    /\ iterations = 0
    /\ pc = "call"
    /\ tasks = <<>>
    /\ conflict = NULL
    /\ pendingTaskUpdate = NULL
    /\ zone = UTC
    /\ lastAction = "init"
    /\ edits = 0
    /\ proposedChanges = <<>>
    /\ pendingNewTasks = <<>>
    /\ messages = <<>>
    /\ clock = 0
    /\ inFlight = NULL

\* Lines 26-28: the copy and the locals.
CascadeEnter ==
    /\ pc = "call"
    /\ LET c == CopyTasks(store, 1)
       IN  /\ store' = c.st
           /\ currentTasks' = c.arr
    /\ hasChanged' = TRUE
    /\ iterations' = 0
    /\ pc' = "loop"
    /\ UNCHANGED <<callerTasks, appVars>>

\* Lines 31-71: one pass of the while loop.
CascadeIterate ==
    /\ pc = "loop"
    /\ LoopGuard(hasChanged, iterations)
    /\ LET r == CascadePass(store, currentTasks, store.arrs[currentTasks], 1, FALSE)
       IN  /\ store' = Collect(r.st)
           /\ hasChanged' = r.hasChanged
    /\ iterations' = iterations + 1
    /\ UNCHANGED <<callerTasks, currentTasks, pc, appVars>>

\* Line 72: return currentTasks.
CascadeReturn ==
    /\ pc = "loop"
    /\ ~LoopGuard(hasChanged, iterations)
    /\ pc' = "done"
    /\ UNCHANGED <<callerTasks, store, currentTasks, hasChanged, iterations, appVars>>

NextCascade == CascadeEnter \/ CascadeIterate \/ CascadeReturn

SpecCascade == InitCascade /\ [][NextCascade]_vars

\* SpecUnvalidated: the same call on task sets whose dates nobody validated
\* (the edit form and the AI response accept any two dates): some task of the
\* input ends before it starts.
AnyDateRanges == (0..MaxDay) \X (0..MaxDay)

InitUnvalidated ==
    /\ \E n \in SetSizes : \E d \in DepConfigs(n) : \E r \in [1..n -> AnyDateRanges] :
          /\ \E i \in 1..n : r[i][1] > r[i][2]
          /\ callerTasks = TaskSet(n, d, r)
    /\ store = NewStore(callerTasks)
    /\ currentTasks = 0
    /\ hasChanged = FALSE
    /\ iterations = 0
    /\ pc = "call"
    /\ tasks = <<>>
    /\ conflict = NULL
    /\ pendingTaskUpdate = NULL
    /\ zone = UTC
    /\ lastAction = "init"
    /\ edits = 0
    /\ proposedChanges = <<>>
    /\ pendingNewTasks = <<>>
    /\ messages = <<>>
    /\ clock = 0
    /\ inFlight = NULL

SpecUnvalidated == InitUnvalidated /\ [][NextCascade]_vars

\* The array cascadeSchedule returned, and the caller's array after the call.
Returned == Deref(store, currentTasks)
CallerAfter == Deref(store, 1)

-----------------------------------------------------------------------------
(* Spec: the App component's manual-edit protocol                          *)

\* canEditTasks = currentUser.role === UserRole.Admin; the user is an Admin.
canEditTasks == TRUE

\* Time zones of the browser: UTC, and a zone one hour east of UTC whose
\* clocks go forward one hour at 01:00 UTC of day 1 (daylight saving time).
CET == [std |-> 1, dst |-> 2, from |-> HoursPerDay + 1, to |-> 200 * HoursPerDay + 1]

Zones == {UTC, CET}

\* allTasks.find(t => t.id === depId): index of the first task with that id,
\* 0 when there is none.
FindTask(allTasks, depId) ==
    LET hits == {i \in DOMAIN allTasks : allTasks[i].id = depId}
    IN  IF hits = {} THEN 0 ELSE CHOOSE i \in hits : \A j \in hits : i <= j

\* The for loop of checkDependencies from dependency k on.
RECURSIVE CheckFrom(_, _, _, _)
CheckFrom(z, updatedTask, allTasks, k) ==
    IF k > Len(updatedTask.dependencies) THEN NULL
    ELSE LET hit == FindTask(allTasks, updatedTask.dependencies[k])
             depEnd == DateParse(allTasks[hit].endDate)
             currentStart == DateParse(updatedTask.startDate)
         IN  IF hit # 0 /\ currentStart <= depEnd
               THEN [dependency |-> allTasks[hit],
                     suggestedDate |-> ToISODate(SetDatePlus(z, depEnd, 1))]
               ELSE CheckFrom(z, updatedTask, allTasks, k + 1)

\* checkDependencies(updatedTask, allTasks), run in time zone z.
checkDependencies(z, updatedTask, allTasks) == CheckFrom(z, updatedTask, allTasks, 1)

\* prev.tasks.map(t => t.id === task.id ? task : t)
ReplaceById(ts, task) == [i \in DOMAIN ts |-> IF ts[i].id = task.id THEN task ELSE ts[i]]

\* The project's tasks when handleTaskUpdate finds a conflict: it returns
\* before setProject.  (Faulty variant: the edit is committed all the same.)
CommittedAnyway(ts, updatedTask) == cascadeSchedule(ReplaceById(ts, updatedTask))

HeldTasks(ts, updatedTask) == ts

\* The project's tasks when handleTaskUpdate finds no conflict: the edit
\* replaces the task of the same id and the set is cascaded.  (Faulty
\* variant: the cascade is left out.)
CommittedWithoutCascade(ts, updatedTask) == ReplaceById(ts, updatedTask)

CommittedTasks(ts, updatedTask) == cascadeSchedule(ReplaceById(ts, updatedTask))

\* fixedTask of resolveConflict: the held edit moved to the suggested date,
\* its end moved by the same number of milliseconds.  (Faulty variant: the
\* end date stays where the edit put it.)
FixedTaskStartOnly(pending, newStartStr) == [pending EXCEPT !.startDate = newStartStr]

FixedTask(pending, newStartStr) ==
    LET oldStart == DateParse(pending.startDate)
        oldEnd == DateParse(pending.endDate)
        durationMs == oldEnd - oldStart
        newStart == DateParse(newStartStr)
        newEndStr == ToISODate(newStart + durationMs)
    IN  [pending EXCEPT !.startDate = newStartStr, !.endDate = newEndStr]

\* The project's tasks after auto-fix: the fixed task replaces the task of
\* the same id and the set is cascaded.  (Faulty variant: the cascade is
\* left out.)
ResolvedWithoutCascade(ts, fixedTask) == ReplaceById(ts, fixedTask)

ResolvedTasks(ts, fixedTask) == cascadeSchedule(ReplaceById(ts, fixedTask))

\* The project as loaded: three tasks in an acyclic dependency configuration,
\* each lasting one day and starting on day 1 or, when it has dependencies,
\* as early as they allow.
LoadedProject(d) ==
    cascadeSchedule(TaskSet(Len(TaskIds), d, [i \in 1..Len(TaskIds) |-> <<1, 1>>]))

Init ==
    /\ \E d \in DepConfigs(Len(TaskIds)) : tasks = LoadedProject(d)
    /\ zone \in Zones
    /\ conflict = NULL
    /\ pendingTaskUpdate = NULL
    /\ lastAction = "init"
    /\ edits = 0
    /\ proposedChanges = <<>>
    /\ pendingNewTasks = <<>>
    /\ messages = <<>>
    /\ clock = 0
    /\ inFlight = NULL
    /\ callerTasks = <<>>
    /\ store = NewStore(<<>>)
    /\ currentTasks = 0
    /\ hasChanged = FALSE
    /\ iterations = 0
    /\ pc = "idle"

\* The task a drag, a resize or the inline editor of the chart hands to
\* onTaskUpdate: { ...task, startDate, endDate }.
Edit(i, r) == [tasks[i] EXCEPT !.startDate = r[1], !.endDate = r[2]]

\* handleTaskUpdate(updatedTask): a manual edit of one task's dates.  The
\* conflict dialog covers the chart, so no edit arrives while it is open.
handleTaskUpdate ==
    /\ canEditTasks
    /\ conflict = NULL
    /\ edits + clock < MaxEdits
    /\ edits' = edits + 1
    /\ \E i \in DOMAIN tasks : \E r \in DateRanges :
          LET updatedTask == Edit(i, r)
              conflictResult == checkDependencies(zone, updatedTask, tasks)
          IN  IF conflictResult # NULL
                THEN /\ pendingTaskUpdate' = updatedTask
                     /\ conflict' = [task |-> updatedTask,
                                     dependency |-> conflictResult.dependency,
                                     suggestedDate |-> conflictResult.suggestedDate]
                     /\ tasks' = HeldTasks(tasks, updatedTask)
                ELSE /\ tasks' = CommittedTasks(tasks, updatedTask)
                     /\ UNCHANGED <<conflict, pendingTaskUpdate>>
    /\ lastAction' = "handleTaskUpdate"
    /\ UNCHANGED <<zone, proposalVars, cascadeVars, projectVars>>

\* resolveConflict(): the auto-fix button of the conflict dialog.
resolveConflict ==
    /\ pendingTaskUpdate # NULL
    /\ conflict # NULL
    /\ canEditTasks
    /\ LET fixedTask == FixedTask(pendingTaskUpdate, conflict.suggestedDate)
       IN  tasks' = ResolvedTasks(tasks, fixedTask)
    /\ conflict' = NULL
    /\ pendingTaskUpdate' = NULL
    /\ lastAction' = "resolveConflict"
    /\ UNCHANGED <<zone, edits, proposalVars, cascadeVars, projectVars>>

\* cancelConflict(): the cancel button of the conflict dialog.  (Faulty
\* variant: the held edit is not dropped.)
cancelConflictKeepsPending ==
    /\ conflict # NULL
    /\ conflict' = NULL
    /\ lastAction' = "cancelConflict"
    /\ UNCHANGED <<tasks, pendingTaskUpdate, zone, edits, proposalVars, cascadeVars, projectVars>>

cancelConflict ==
    /\ conflict # NULL
    /\ conflict' = NULL
    /\ pendingTaskUpdate' = NULL
    /\ lastAction' = "cancelConflict"
    /\ UNCHANGED <<tasks, zone, edits, proposalVars, cascadeVars, projectVars>>

Next == handleTaskUpdate \/ resolveConflict \/ cancelConflict

Spec == Init /\ [][Next]_vars

-----------------------------------------------------------------------------
(* SpecProposal: AI proposals, confirmed or rejected                       *)

\* A task with the fields a proposal's confirmation carries along.
ProjectTask(t) ==
    [id |-> t.id, startDate |-> t.startDate, endDate |-> t.endDate,
     dependencies |-> t.dependencies, duration |-> t.duration,
     assignee |-> t.assignee, status |-> t.status, gmpCritical |-> TRUE,
     category |-> "Planning"]

\* The built-in project, abridged to its first three tasks: a chain in which
\* each task depends on the one before.
BuiltInProject ==
    LET ts == LoadedProject(<< <<>>, <<TaskIds[1]>>, <<TaskIds[2]>> >>)
    IN  [i \in DOMAIN ts |-> ProjectTask(ts[i])]

\* new_assignee of an AI response: absent, or a name.
NoAssignee == ""
Assignees == {NoAssignee, "ops"}

\* The ProposedChange built from one affected_tasks entry (the fields that
\* handleConfirmChanges reads).
ProposedChange(taskId, start, end, assignee) ==
    [taskId |-> taskId, newStartDate |-> start, newEndDate |-> end,
     newAssignee |-> assignee]

ChangeSet ==
    {ProposedChange(id, s, e, a) :
        id \in DepIds, s \in 0..MaxDay, e \in 0..MaxDay, a \in Assignees}

\* Math.ceil((end - start) / (1000 * 3600 * 24)) + 1 for whole-day instants.
NewTaskDuration(start, end) == (DateParse(end) - DateParse(start)) \div HoursPerDay + 1

\* The task built from the created_tasks entry idx (counted from 0) of the
\* response that arrived at time now.
NewTask(now, idx, start, end) ==
    [id |-> "new_task_" \o ToString(now) \o "_" \o ToString(idx),
     startDate |-> start, endDate |-> end,
     dependencies |-> <<>>, duration |-> NewTaskDuration(start, end),
     assignee |-> "AI", status |-> "Pending", gmpCritical |-> FALSE,
     category |-> "General", isNew |-> TRUE, reason |-> "requested"]

\* changes.find(c => c.taskId === task.id): position of the first change that
\* targets the task, 0 when there is none.
FindChange(changes, taskId) ==
    LET hits == {k \in DOMAIN changes : changes[k].taskId = taskId}
    IN  IF hits = {} THEN 0 ELSE CHOOSE k \in hits : \A j \in hits : k <= j

\* The callback of prev.tasks.map in handleConfirmChanges.  (Faulty variant:
\* a changed task goes back to Pending.)
ApplyChangeResetStatus(task, changes) ==
    LET k == FindChange(changes, task.id)
    IN  IF k = 0 THEN task
        ELSE [task EXCEPT !.startDate = changes[k].newStartDate,
                          !.endDate = changes[k].newEndDate,
                          !.assignee = IF changes[k].newAssignee # NoAssignee
                                         THEN changes[k].newAssignee ELSE @,
                          !.status = "Delayed"]

ApplyChange(task, changes) ==
    LET k == FindChange(changes, task.id)
    IN  IF k = 0 THEN task
        ELSE [task EXCEPT !.startDate = changes[k].newStartDate,
                          !.endDate = changes[k].newEndDate,
                          !.assignee = IF changes[k].newAssignee # NoAssignee
                                         THEN changes[k].newAssignee ELSE @,
                          !.status = task.status]

\* const { isNew, reason, ...rest } = t.  (Faulty variant: the task is kept
\* as proposed.)
KeepProposed(t) == t

Finalize(t) == [f \in DOMAIN t \ {"isNew", "reason"} |-> t[f]]

\* finalizedTasks of handleConfirmChanges.
ConfirmedTasks(ts, changes, newTasks) ==
    LET tasksWithAIUpdates == [i \in DOMAIN ts |-> ApplyChange(ts[i], changes)]
        finalizedNewTasks == [j \in DOMAIN newTasks |-> Finalize(newTasks[j])]
        mergedTasks == tasksWithAIUpdates \o finalizedNewTasks
    IN  cascadeSchedule(mergedTasks)

InitProposal ==
    /\ tasks = BuiltInProject
    /\ zone = UTC
    /\ conflict = NULL
    /\ pendingTaskUpdate = NULL
    /\ lastAction = "init"
    /\ edits = 0
    /\ proposedChanges = <<>>
    /\ pendingNewTasks = <<>>
    /\ messages = <<>>
    /\ clock = 0
    /\ inFlight = NULL
    /\ callerTasks = <<>>
    /\ store = NewStore(<<>>)
    /\ currentTasks = 0
    /\ hasChanged = FALSE
    /\ iterations = 0
    /\ pc = "idle"

\* handleSendMessage from the arrival of the AI response on: the proposal
\* becomes the pending one and is attached to the assistant message.
handleSendMessage ==
    /\ Len(messages) < MaxMessages
    /\ \E n \in 0..MaxChanges : \E changes \in [1..n -> ChangeSet] :
       \E k \in 0..MaxNewTasks : \E dates \in [1..k -> (0..MaxDay) \X (0..MaxDay)] :
          LET now == Len(messages) + 1
              newTasks == [j \in 1..k |-> NewTask(now, j - 1, dates[j][1], dates[j][2])]
          IN  /\ proposedChanges' = changes
              /\ pendingNewTasks' = newTasks
              /\ messages' = Append(messages, [proposedChanges |-> changes,
                                               newTasks |-> newTasks])
    /\ lastAction' = "handleSendMessage"
    /\ UNCHANGED <<tasks, editVars, cascadeVars, projectVars>>

\* handleConfirmChanges(changes, newTasks), called by the confirm button of
\* a message that shows a proposal.  The model follows the project while it
\* has at most MaxTasks tasks.
handleConfirmChanges ==
    /\ canEditTasks
    /\ \E m \in DOMAIN messages :
          LET changes == messages[m].proposedChanges
              newTasks == messages[m].newTasks
          IN  /\ Len(changes) > 0 \/ Len(newTasks) > 0
              /\ Len(tasks) + Len(newTasks) <= MaxTasks
              /\ tasks' = ConfirmedTasks(tasks, changes, newTasks)
    /\ proposedChanges' = <<>>
    /\ pendingNewTasks' = <<>>
    /\ lastAction' = "handleConfirmChanges"
    /\ UNCHANGED <<messages, editVars, cascadeVars, projectVars>>

\* handleRejectChanges(), called by the reject button of such a message.
handleRejectChanges ==
    /\ \E m \in DOMAIN messages :
          Len(messages[m].proposedChanges) > 0 \/ Len(messages[m].newTasks) > 0
    /\ proposedChanges' = <<>>
    /\ pendingNewTasks' = <<>>
    /\ lastAction' = "handleRejectChanges"
    /\ UNCHANGED <<tasks, messages, editVars, cascadeVars, projectVars>>

NextProposal == handleSendMessage \/ handleConfirmChanges \/ handleRejectChanges

SpecProposal == InitProposal /\ [][NextProposal]_vars

-----------------------------------------------------------------------------
(* SpecProject: the project under every handler that writes its tasks      *)

\* new Date() of handleAddModule, as a day; addDays(today, 5) of the general
\* task; the durations of the first two steps of the equipment template, to
\* which the templates are abridged.
Today == MaxDay
GeneralTaskDays == 5
ModuleTemplate == <<5, 10>>
ModuleTypes == {"general", "equipment"}

IsNewTask(t) == "isNew" \in DOMAIN t /\ t.isNew

TaskIdSet(ts) == {ts[i].id : i \in DOMAIN ts}

\* tasks.splice(k - 1, 0, t) and tasks.splice(k - 1, 1), for a row k counted
\* from 1.
InsertAt(ts, k, t) == SubSeq(ts, 1, k - 1) \o <<t>> \o SubSeq(ts, k, Len(ts))

RemoveAt(ts, k) == SubSeq(ts, 1, k - 1) \o SubSeq(ts, k + 1, Len(ts))

\* newTask of handleInsertTask.
InsertedTask(now, targetTask) ==
    [id |-> "task_" \o ToString(now),
     startDate |-> targetTask.startDate, endDate |-> targetTask.endDate,
     dependencies |-> <<>>, duration |-> targetTask.duration,
     assignee |-> "unassigned", status |-> "Pending", gmpCritical |-> FALSE,
     category |-> "General", isNew |-> TRUE]

\* The updater of handleInsertTask.
InsertedTasks(ts, now, targetTaskId, position) ==
    LET index == FindTask(ts, targetTaskId)
    IN  IF index = 0 THEN ts
        ELSE InsertAt(ts, IF position = "after" THEN index + 1 ELSE index,
                      InsertedTask(now, ts[index]))

\* prev.tasks.filter(t => t.id !== taskId)
DeletedTasks(ts, taskId) == SelectSeq(ts, LAMBDA t : t.id # taskId)

\* The single task of the 'general' module.
GeneralTask(z, baseId) ==
    [id |-> "task_" \o ToString(baseId),
     startDate |-> Today, endDate |-> addDays(z, Today, GeneralTaskDays),
     dependencies |-> <<>>, duration |-> GeneralTaskDays,
     assignee |-> "unassigned", status |-> "Pending", gmpCritical |-> FALSE,
     category |-> "General"]

\* template.map(...) of handleAddModule from step k on: each step starts the
\* day after the step before it ends and depends on it.
RECURSIVE TemplateTasks(_, _, _, _, _)
TemplateTasks(z, baseId, k, currentStartDate, prevTaskId) ==
    IF k > Len(ModuleTemplate) THEN <<>>
    ELSE LET taskId == "task_" \o ToString(baseId) \o "_" \o ToString(k - 1)
             endDate == addDays(z, currentStartDate, ModuleTemplate[k])
         IN  <<[id |-> taskId,
                startDate |-> currentStartDate, endDate |-> endDate,
                dependencies |-> IF prevTaskId # "" THEN <<prevTaskId>> ELSE <<>>,
                duration |-> ModuleTemplate[k],
                assignee |-> "tbd", status |-> "Pending", gmpCritical |-> TRUE,
                category |-> "Planning"]>>
             \o TemplateTasks(z, baseId, k + 1, addDays(z, endDate, 1), taskId)

ModuleTasks(z, baseId, type) ==
    IF type = "general" THEN <<GeneralTask(z, baseId)>>
    ELSE TemplateTasks(z, baseId, 1, Today, "")

\* handleRowDrop: row draggedTaskIndex of allTasks is moved to row
\* dragOverIndex, and the rows without isNew are handed to handleTaskReorder.
DroppedTasks(allTasks, draggedTaskIndex, dragOverIndex) ==
    LET movedTask == allTasks[draggedTaskIndex]
        newTasks == InsertAt(RemoveAt(allTasks, draggedTaskIndex), dragOverIndex, movedTask)
    IN  SelectSeq(newTasks, LAMBDA t : ~IsNewTask(t))

\* A change of an AI response, with the original dates looked up in the
\* task list the request was sent with.
AnalysedChange(snapshot, at) ==
    LET hit == FindTask(snapshot, at.taskId)
    IN  [taskId |-> at.taskId,
         newStartDate |-> at.newStartDate, newEndDate |-> at.newEndDate,
         newAssignee |-> at.newAssignee,
         originalStartDate |-> IF hit = 0 THEN NULL ELSE snapshot[hit].startDate,
         originalEndDate |-> IF hit = 0 THEN NULL ELSE snapshot[hit].endDate]

\* affected_tasks entries an AI that was shown `snapshot` may answer with.
AffectedSet(snapshot) ==
    {ProposedChange(id, st, en, a) :
        id \in TaskIdSet(snapshot) \cup {UnknownId},
        st \in 0..MaxDay, en \in 0..MaxDay, a \in Assignees}

InitProject == InitProposal

\* handleSendMessage up to the await: the request carries project.tasks.
requestAnalysis ==
    /\ inFlight = NULL
    /\ Len(messages) < MaxMessages
    /\ inFlight' = [tasks |-> tasks]
    /\ lastAction' = "requestAnalysis"
    /\ UNCHANGED <<tasks, editVars, proposalVars, cascadeVars, clock>>

\* handleSendMessage after the await: the response becomes the pending
\* proposal and the metadata of a chat message.
receiveAnalysis ==
    /\ inFlight # NULL
    /\ edits + clock < MaxClock
    /\ clock' = clock + 1
    /\ \E n \in 0..MaxAffected : \E affected \in [1..n -> AffectedSet(inFlight.tasks)] :
       \E k \in 0..MaxNewTasks :
          LET changes == [j \in 1..n |-> AnalysedChange(inFlight.tasks, affected[j])]
              newTasks == [j \in 1..k |-> NewTask(clock', j - 1, Today, Today)]
          IN  /\ proposedChanges' = changes
              /\ pendingNewTasks' = newTasks
              /\ messages' = Append(messages, [proposedChanges |-> changes,
                                               newTasks |-> newTasks])
    /\ inFlight' = NULL
    /\ lastAction' = "receiveAnalysis"
    /\ UNCHANGED <<tasks, editVars, cascadeVars>>

\* handleInsertTask(targetTaskId, position), from the row menu of a task.
handleInsertTask ==
    /\ canEditTasks
    /\ edits + clock < MaxClock
    /\ Len(tasks) < MaxTasks
    /\ clock' = clock + 1
    /\ \E targetTaskId \in TaskIdSet(tasks) : \E position \in {"before", "after"} :
          tasks' = InsertedTasks(tasks, clock', targetTaskId, position)
    /\ lastAction' = "handleInsertTask"
    /\ UNCHANGED <<editVars, proposalVars, cascadeVars, inFlight>>

\* handleTaskDelete(taskId), from the delete dialog of a task.
handleTaskDelete ==
    /\ canEditTasks
    /\ edits + clock < MaxClock
    /\ clock' = clock + 1
    /\ \E taskId \in TaskIdSet(tasks) : tasks' = DeletedTasks(tasks, taskId)
    /\ lastAction' = "handleTaskDelete"
    /\ UNCHANGED <<editVars, proposalVars, cascadeVars, inFlight>>

\* handleAddModule(type), from the add menu.
handleAddModule ==
    /\ canEditTasks
    /\ edits + clock < MaxClock
    /\ clock' = clock + 1
    /\ \E type \in ModuleTypes :
          /\ Len(tasks) + Len(ModuleTasks(zone, clock', type)) <= MaxTasks
          /\ tasks' = tasks \o ModuleTasks(zone, clock', type)
    /\ lastAction' = "handleAddModule"
    /\ UNCHANGED <<editVars, proposalVars, cascadeVars, inFlight>>

\* handleRowDrop and handleTaskReorder: a row that is not marked isNew is
\* dragged onto another row of the chart, which lists the project's tasks
\* and the pending new tasks.
handleRowDrop ==
    /\ canEditTasks
    /\ edits + clock < MaxClock
    /\ clock' = clock + 1
    /\ LET allTasks == tasks \o pendingNewTasks
       IN  \E draggedTaskIndex \in DOMAIN allTasks : \E dragOverIndex \in DOMAIN allTasks :
              /\ ~IsNewTask(allTasks[draggedTaskIndex])
              /\ draggedTaskIndex # dragOverIndex
              /\ tasks' = DroppedTasks(allTasks, draggedTaskIndex, dragOverIndex)
    /\ lastAction' = "handleRowDrop"
    /\ UNCHANGED <<editVars, proposalVars, cascadeVars, inFlight>>

NextProject ==
    \/ handleTaskUpdate \/ resolveConflict \/ cancelConflict
    \/ requestAnalysis \/ receiveAnalysis
    \/ handleConfirmChanges \/ handleRejectChanges
    \/ handleInsertTask \/ handleTaskDelete \/ handleAddModule \/ handleRowDrop

SpecProject == InitProject /\ [][NextProject]_vars

-----------------------------------------------------------------------------
(* Vocabulary of the properties                                            *)

Done == pc = "done"

\* The loop ended because a pass changed nothing (not because of the cap).
Converged == Done /\ ~hasChanged

Max(S) == CHOOSE x \in S : \A y \in S : y <= x

\* Latest end date among the present dependencies of ts[i].
MaxPresentEnd(ts, i) == Max({ts[j].endDate : j \in PresentDeps(ts, i)})

\* Finish-to-start rule: every task starts strictly after the end of each of
\* its dependencies present in the set.
Consistent(ts) ==
    \A i \in DOMAIN ts : \A j \in PresentDeps(ts, i) :
        ts[i].startDate > ts[j].endDate

SameDates(ts, us) ==
    /\ Len(ts) = Len(us)
    /\ \A i \in DOMAIN ts : /\ ts[i].startDate = us[i].startDate
                            /\ ts[i].endDate = us[i].endDate

Moved(i) == Returned[i].startDate # callerTasks[i].startDate

HasUnknownDep(t) == \E k \in DOMAIN t.dependencies :
                       t.dependencies[k] \notin {callerTasks[j].id : j \in DOMAIN callerTasks}

\* The task set with the dependency ids that match no task removed.
RECURSIVE KnownOnly(_, _)
KnownOnly(deps, ids) ==
    IF deps = <<>> THEN <<>>
    ELSE IF Head(deps) \in ids THEN <<Head(deps)>> \o KnownOnly(Tail(deps), ids)
    ELSE KnownOnly(Tail(deps), ids)

StripUnknown(ts) ==
    [i \in DOMAIN ts |->
        [ts[i] EXCEPT !.dependencies =
            KnownOnly(@, {ts[j].id : j \in DOMAIN ts})]]

-----------------------------------------------------------------------------
(* Properties of cascadeSchedule, under SpecCascade                        *)

C3_ReturnsWithinCap ==
    [][ /\ iterations' <= MaxPasses
        /\ \/ pc = "call" /\ pc' = "loop"
           \/ pc = "loop" /\ pc' = "loop" /\ iterations' = iterations + 1
           \/ pc = "loop" /\ pc' = "done" /\ Len(Returned') = Len(callerTasks) ]_vars

C3_Witness ==
    /\ Done
    /\ iterations = MaxPasses
    /\ ~Consistent(Returned)
    /\ \E i, j \in DOMAIN callerTasks :
          i # j /\ j \in PresentDeps(callerTasks, i) /\ i \in PresentDeps(callerTasks, j)

\* C4: after any number of passes, every task's endDate - startDate equals
\* that of the same task in the input.
C4_SpanPreserved ==
    pc # "call" =>
       \A i \in DOMAIN callerTasks :
          /\ Returned[i].id = callerTasks[i].id
          /\ Returned[i].endDate - Returned[i].startDate
                = callerTasks[i].endDate - callerTasks[i].startDate

C4_Witness ==
    /\ Done
    /\ \E i \in DOMAIN callerTasks :
          /\ Moved(i)
          /\ callerTasks[i].endDate > callerTasks[i].startDate
          /\ iterations > 2

\* C5: an input that already satisfies the finish-to-start rule comes back
\* with the same dates, and the loop stops after one pass.
C5_ConsistentInputUntouched ==
    Done /\ Consistent(callerTasks) =>
       SameDates(Returned, callerTasks) /\ iterations = 1

C5_Witness ==
    /\ Done
    /\ Consistent(callerTasks)
    /\ \E i \in DOMAIN callerTasks :
          /\ PresentDeps(callerTasks, i) # {}
          /\ callerTasks[i].startDate = MaxPresentEnd(callerTasks, i) + 1
          /\ MaxPresentEnd(callerTasks, i) > Epoch

\* C6: unknown dependency ids are ignored.  A task with dependencies none of
\* which is a task of the set keeps its dates; and the result is the one the
\* same input gives with the unknown ids removed from every dependency list.
C6_UnknownDepsIgnored ==
    Done =>
       /\ \A i \in DOMAIN callerTasks :
             PresentDeps(callerTasks, i) = {} =>
                /\ Returned[i].startDate = callerTasks[i].startDate
                /\ Returned[i].endDate = callerTasks[i].endDate
       /\ (\E i \in DOMAIN callerTasks : HasUnknownDep(callerTasks[i])) =>
             SameDates(Returned, cascadeSchedule(StripUnknown(callerTasks)))

C6_Witness ==
    /\ Done
    /\ \E i, j \in DOMAIN callerTasks :
          /\ i # j
          /\ callerTasks[j].dependencies = <<UnknownId, callerTasks[i].id>>
          /\ Moved(j)
          /\ Returned[j].startDate = Returned[i].endDate + 1
          /\ Returned[j].startDate <= callerTasks[j].endDate

\* C7: the call changes neither the caller's array nor the task objects in
\* it: after every step of the call the caller's array holds the tasks it
\* held before, whatever the returned array holds.
C7_InputNotMutated == Deref(store, 1) = callerTasks

C7_Witness ==
    /\ Done
    /\ \E i \in DOMAIN callerTasks : Moved(i)
    /\ CallerAfter = callerTasks

-----------------------------------------------------------------------------
(* Properties of the manual-edit protocol, under Spec                      *)

\* Positions in u's dependency list of the dependencies that are tasks of ts
\* and end on or after u's start.
ViolatedDeps(u, ts) ==
    {k \in DOMAIN u.dependencies :
        \E j \in DOMAIN ts : /\ ts[j].id = u.dependencies[k]
                             /\ ts[j].endDate >= u.startDate}

Min(S) == CHOOSE x \in S : \A y \in S : x <= y

TaskById(ts, id) == ts[FindTask(ts, id)]

\* C8 (as claimed): for every edit of a task of the project, checkDependencies
\* returns null exactly when no present dependency ends on or after the
\* edit's start; otherwise it reports the first such dependency in list
\* order, and the suggested date is that dependency's end date plus one day.
C8_FirstConflictNextDay ==
    \A i \in DOMAIN tasks : \A r \in DateRanges :
       LET u == Edit(i, r)
           res == checkDependencies(zone, u, tasks)
           bad == ViolatedDeps(u, tasks)
           first == TaskById(tasks, u.dependencies[Min(bad)])
       IN  /\ res = NULL <=> bad = {}
           /\ bad # {} => /\ res.dependency = first
                          /\ res.suggestedDate = first.endDate + 1

\* C9: a manual edit that conflicts with a present dependency is held and
\* the project's tasks are left as they are; while the conflict is open the
\* only steps are cancel, which leaves the tasks as they were before the
\* edit, and auto-fix; and when handleTaskUpdate itself commits, the edit it
\* commits has no conflict.
C9_ConflictingEditHeld ==
    [][ /\ conflict = NULL /\ conflict' # NULL =>
              /\ lastAction' = "handleTaskUpdate"
              /\ tasks' = tasks
              /\ pendingTaskUpdate' = conflict'.task
              /\ checkDependencies(zone, pendingTaskUpdate', tasks) # NULL
        /\ conflict # NULL =>
              /\ lastAction' \in {"cancelConflict", "resolveConflict"}
              /\ conflict' = NULL
              /\ pendingTaskUpdate' = NULL
              /\ lastAction' = "cancelConflict" => tasks' = tasks
        /\ lastAction' = "handleTaskUpdate" /\ conflict' = NULL =>
              \E i \in DOMAIN tasks :
                 /\ checkDependencies(zone, tasks'[i], tasks) = NULL
                 /\ tasks' = cascadeSchedule(ReplaceById(tasks, tasks'[i])) ]_vars

C9_Witness ==
    /\ conflict # NULL
    /\ pendingTaskUpdate = conflict.task
    /\ edits > 1
    /\ pendingTaskUpdate.startDate <= conflict.dependency.endDate
    /\ TaskById(tasks, pendingTaskUpdate.id).startDate > conflict.dependency.endDate
    /\ Consistent(tasks)

\* C10 (as claimed; stated for a browser in UTC, where the suggested date is
\* the reported dependency's end date plus one day): after auto-fix the
\* edited task's start date in the project is the suggested date of the
\* conflict.
C10_StartIsSuggestedDate ==
    [][ zone = UTC /\ conflict # NULL /\ lastAction' = "resolveConflict" =>
           TaskById(tasks', conflict.task.id).startDate = conflict.suggestedDate ]_vars

\* C11: after auto-fix the edited task's endDate - startDate in the project
\* is the endDate - startDate of the held edit.
C11_ResolveKeepsSpan ==
    [][ conflict # NULL /\ lastAction' = "resolveConflict" =>
           LET fixed == TaskById(tasks', pendingTaskUpdate.id)
           IN  fixed.endDate - fixed.startDate
                  = pendingTaskUpdate.endDate - pendingTaskUpdate.startDate ]_vars

\* A task that lasts more than a day (every loaded task lasts one day, so it
\* was edited) and starts the day after the end of a dependency, in the
\* state auto-fix leaves.
C11_Witness ==
    /\ lastAction = "resolveConflict"
    /\ conflict = NULL
    /\ \E i \in DOMAIN tasks :
          /\ tasks[i].endDate > tasks[i].startDate
          /\ PresentDeps(tasks, i) # {}
          /\ tasks[i].startDate = MaxPresentEnd(tasks, i) + 1

IsChain(ts, a, b, c) ==
    /\ ts[a].dependencies = <<>>
    /\ ts[b].dependencies = <<ts[a].id>>
    /\ ts[c].dependencies = <<ts[b].id>>

-----------------------------------------------------------------------------
(* Properties of proposal confirmation, under SpecProposal                 *)

\* The changes whose target is a task of ts.
KnownTargets(changes, ts) ==
    SelectSeq(changes, LAMBDA c : \E i \in DOMAIN ts : ts[i].id = c.taskId)

\* C14: confirming a proposal yields a task set as long as the previous one
\* plus the new tasks; each task targeted by a change has the assignee of
\* the (first) change that targets it when it names one, the change's
\* endDate - startDate, and the change's start date unless the cascade moved
\* it to the day after its latest dependency ends; each new task is appended
\* without isNew and reason, with its proposed dates and no dependencies.
C14_ConfirmMerges ==
    [][ lastAction' = "handleConfirmChanges" =>
           \E m \in DOMAIN messages :
              LET changes == messages[m].proposedChanges
                  newTasks == messages[m].newTasks
              IN  /\ Len(tasks') = Len(tasks) + Len(newTasks)
                  /\ \A i \in DOMAIN tasks :
                        LET k == FindChange(changes, tasks[i].id)
                        IN  k # 0 =>
                              /\ tasks'[i].id = tasks[i].id
                              /\ changes[k].newAssignee # NoAssignee =>
                                    tasks'[i].assignee = changes[k].newAssignee
                              /\ tasks'[i].endDate - tasks'[i].startDate
                                    = changes[k].newEndDate - changes[k].newStartDate
                              /\ \/ tasks'[i].startDate = changes[k].newStartDate
                                 \/ /\ tasks'[i].startDate > changes[k].newStartDate
                                    /\ PresentDeps(tasks', i) # {}
                                    /\ tasks'[i].startDate = MaxPresentEnd(tasks', i) + 1
                  /\ \A j \in DOMAIN newTasks :
                        LET t == tasks'[Len(tasks) + j]
                        IN  /\ DOMAIN t = DOMAIN newTasks[j] \ {"isNew", "reason"}
                            /\ t.id = newTasks[j].id
                            /\ t.startDate = newTasks[j].startDate
                            /\ t.endDate = newTasks[j].endDate
                            /\ t.dependencies = <<>> ]_vars

\* A confirmed proposal with two changes and a new task: the new task is the
\* fourth task, without isNew; a task has the new assignee; a changed task
\* was moved by the cascade.
C14_Witness ==
    /\ lastAction = "handleConfirmChanges"
    /\ proposedChanges = <<>>
    /\ Len(tasks) = Len(TaskIds) + 1
    /\ "isNew" \notin DOMAIN tasks[Len(tasks)]
    /\ \E m \in DOMAIN messages :
          /\ Len(messages[m].proposedChanges) = 2
          /\ \E k \in DOMAIN messages[m].proposedChanges : \E i \in DOMAIN tasks :
                /\ messages[m].proposedChanges[k].taskId = tasks[i].id
                /\ messages[m].proposedChanges[k].newAssignee = tasks[i].assignee
                /\ tasks[i].assignee = "ops"
                /\ tasks[i].startDate > messages[m].proposedChanges[k].newStartDate

\* C15: confirming a proposal leaves id, status, gmpCritical, category,
\* dependencies and duration of every task as they were, changes the
\* assignee only of a task targeted by a change that names one, adds no
\* field and drops none, and gives the result it gives without the changes
\* whose target is no task.
C15_ConfirmFrame ==
    [][ lastAction' = "handleConfirmChanges" =>
           \E m \in DOMAIN messages :
              LET changes == messages[m].proposedChanges
                  newTasks == messages[m].newTasks
              IN  /\ \A i \in DOMAIN tasks :
                        LET k == FindChange(changes, tasks[i].id)
                        IN  /\ DOMAIN tasks'[i] = DOMAIN tasks[i]
                            /\ \A f \in {"id", "status", "gmpCritical", "category",
                                         "dependencies", "duration"} :
                                  tasks'[i][f] = tasks[i][f]
                            /\ (k = 0 \/ changes[k].newAssignee = NoAssignee) =>
                                  tasks'[i].assignee = tasks[i].assignee
                  /\ tasks' = ConfirmedTasks(tasks, KnownTargets(changes, tasks), newTasks) ]_vars

\* A confirmed proposal whose first change targets no task and whose second
\* change names no assignee: its target has the change's dates and the
\* assignee it had.
C15_Witness ==
    /\ lastAction = "handleConfirmChanges"
    /\ \E m \in DOMAIN messages :
          LET changes == messages[m].proposedChanges
          IN  /\ Len(changes) = 2
              /\ changes[1].taskId = UnknownId
              /\ changes[2].taskId = tasks[1].id
              /\ changes[2].newAssignee = NoAssignee
              /\ tasks[1].startDate = changes[2].newStartDate
              /\ tasks[1].endDate = changes[2].newEndDate
              /\ tasks[1].endDate > BuiltInProject[1].endDate
              /\ tasks[1].assignee = BuiltInProject[1].assignee

\* C16 (as claimed): after a proposal is confirmed, whatever its dates, every
\* task of the project starts strictly after the end of each of its
\* dependencies present in the project, provided the dependency graph is
\* acyclic.
C16_ConfirmedIsConsistent ==
    lastAction = "handleConfirmChanges" /\ Acyclic(tasks) => Consistent(tasks)

-----------------------------------------------------------------------------
(* Properties of cascadeSchedule, continued                                *)

\* C17 (as claimed): in the array cascadeSchedule returns every task has
\* startDate <= endDate, also when a task of the input had
\* startDate > endDate.
C17_StartNotAfterEnd ==
    Done => \A i \in DOMAIN Returned : Returned[i].startDate <= Returned[i].endDate

\* C18: the array cascadeSchedule returns has as many tasks as the input, in
\* the same order, and each task equals the input task in every field but
\* startDate and endDate.
C18_OnlyDatesWritten ==
    Done =>
       /\ Len(Returned) = Len(callerTasks)
       /\ \A i \in DOMAIN callerTasks :
             /\ DOMAIN Returned[i] = DOMAIN callerTasks[i]
             /\ \A f \in DOMAIN callerTasks[i] \ {"startDate", "endDate"} :
                   Returned[i][f] = callerTasks[i][f]

\* A returned array of three tasks two of which were moved.
C18_Witness ==
    /\ Done
    /\ Len(Returned) = Len(TaskIds)
    /\ \E i, j \in DOMAIN Returned : i # j /\ Moved(i) /\ Moved(j)
    /\ \A i \in DOMAIN Returned : Returned[i].status = "Pending"

\* C19: a pass of the loop leaves each task's dates as they are or moves both
\* to a later day, so no date of the returned array is earlier than in the
\* input.
C19_ShiftsOnlyLater ==
    [][ pc = "loop" /\ pc' = "loop" =>
           LET before == Deref(store, currentTasks)
               after == Deref(store', currentTasks')
           IN  \A i \in DOMAIN before :
                  \/ /\ after[i].startDate = before[i].startDate
                     /\ after[i].endDate = before[i].endDate
                  \/ /\ after[i].startDate > before[i].startDate
                     /\ after[i].endDate > before[i].endDate ]_vars

\* Between input and output.
C19_NeverEarlierThanInput ==
    Done => \A i \in DOMAIN callerTasks :
               /\ Returned[i].startDate >= callerTasks[i].startDate
               /\ Returned[i].endDate >= callerTasks[i].endDate

\* Both parts of C19.
C19_Monotone == C19_ShiftsOnlyLater /\ []C19_NeverEarlierThanInput

\* A call of at least three passes that moved a task by more than one day.
C19_Witness ==
    /\ Done
    /\ iterations >= 3
    /\ \E i \in DOMAIN Returned : Returned[i].startDate > callerTasks[i].startDate + 1

\* A chain a <- b <- c listed in dependency order whose first link was
\* delayed: b starts on or before the day a ends.  (Every task ends after
\* 1970-01-01, so that no dependency is mistaken for a missing one.)
DelayedChainInOrder(ts) ==
    /\ Len(ts) = 3
    /\ IsChain(ts, 1, 2, 3)
    /\ \A i \in DOMAIN ts : ts[i].endDate > ToISODate(Epoch)
    /\ ts[2].startDate <= ts[1].endDate

\* C20 (as claimed): for a chain listed in dependency order whose first link
\* was delayed, a task is compared with the end date its dependency got
\* earlier in the same pass, so that after the first pass every task of the
\* chain starts strictly after its dependency's end, and the loop stops
\* after the second pass.
C20_RepairedInFirstPass ==
    DelayedChainInOrder(callerTasks) /\ pc \in {"loop", "done"} /\ iterations >= 1 =>
       /\ Consistent(Deref(store, currentTasks))
       /\ Done => iterations = 2

\* The permutations of 1..n, and the array ts with its rows in the order p.
Perms(n) == {p \in [1..n -> 1..n] : \A i, j \in 1..n : p[i] = p[j] => i = j}

Permuted(ts, p) == [i \in DOMAIN ts |-> ts[p[i]]]

\* C21: for an acyclic task set, cascadeSchedule on the rows in any other
\* order returns, row by row, the task of the same id with the start and end
\* date the call on the original order returned for it.
C21_OrderIrrelevant ==
    Done /\ Acyclic(callerTasks) =>
       \A p \in Perms(Len(callerTasks)) :
          LET out == cascadeSchedule(Permuted(callerTasks, p))
          IN  \A i \in DOMAIN out :
                 /\ out[i].id = Returned[p[i]].id
                 /\ out[i].startDate = Returned[p[i]].startDate
                 /\ out[i].endDate = Returned[p[i]].endDate

\* A returned chain of three tasks listed against dependency order (the
\* first row depends on a later one), two of which were moved.
C21_Witness ==
    /\ Done
    /\ Acyclic(callerTasks)
    /\ \E a, b, c \in DOMAIN callerTasks :
          /\ IsChain(callerTasks, a, b, c)
          /\ c < b /\ b < a
          /\ Moved(b) /\ Moved(c)

\* Two tasks each of which depends on the other alone.
TwoCycle(ts) ==
    /\ Len(ts) = 2
    /\ ts[1].dependencies = <<ts[2].id>>
    /\ ts[2].dependencies = <<ts[1].id>>

\* C22 (as claimed): on a cycle of two tasks, each with startDate <= endDate,
\* every pass shifts a task (hasChanged is true after it), the loop returns
\* after exactly 50 passes, and the returned set violates the
\* finish-to-start rule.
C22_CycleRunsToCap ==
    TwoCycle(callerTasks) /\ pc \in {"loop", "done"} =>
       /\ iterations >= 1 => hasChanged
       /\ Done => iterations = MaxPasses /\ ~Consistent(Returned)

\* C23 (as claimed): in a pass, every task with a dependency present in the
\* set that starts before (latest end among its present dependencies, as the
\* pass found them) + 1 day is moved to exactly that day, and every other
\* such task keeps its start; for all dates, those on or before 1970-01-01
\* included.
C23_MovedToDayAfterLatestEnd ==
    [][ pc = "loop" /\ pc' = "loop" =>
           LET before == Deref(store, currentTasks)
               after == Deref(store', currentTasks')
           IN  \A i \in DOMAIN before :
                  PresentDeps(before, i) # {} =>
                     after[i].startDate =
                        Max({before[i].startDate, MaxPresentEnd(before, i) + 1}) ]_vars

\* C24 (as claimed): for an acyclic task set (whose chains are far shorter
\* than the pass cap) every task of the returned array starts on the later
\* of its input start and the day after the latest returned end among its
\* present dependencies; a task without present dependencies keeps its start.
C24_LeastShifted ==
    Done /\ Acyclic(callerTasks) =>
       \A i \in DOMAIN Returned :
          Returned[i].startDate =
             IF PresentDeps(Returned, i) = {} THEN callerTasks[i].startDate
             ELSE Max({callerTasks[i].startDate, MaxPresentEnd(Returned, i) + 1})

-----------------------------------------------------------------------------
(* Properties of the pending-edit state machine, under Spec                *)

\* C25: the conflict record and the held edit are both present or both
\* absent in every state; a conflict appears only by a manual edit for which
\* checkDependencies reports a conflict with the project's tasks, and the
\* held edit is that edit; from a state with a conflict, cancel and auto-fix
\* both leave neither a conflict nor a held edit.
C25_PendingEditWellFormed ==
    /\ []((conflict = NULL) <=> (pendingTaskUpdate = NULL))
    /\ [][ /\ conflict = NULL /\ conflict' # NULL =>
                /\ lastAction' = "handleTaskUpdate"
                /\ pendingTaskUpdate' = conflict'.task
                /\ checkDependencies(zone, pendingTaskUpdate', tasks) # NULL
           /\ conflict # NULL /\ lastAction' \in {"cancelConflict", "resolveConflict"} =>
                /\ conflict' = NULL
                /\ pendingTaskUpdate' = NULL ]_vars

\* A second edit was held and then cancelled: nothing is pending.
C25_Witness ==
    /\ lastAction = "cancelConflict"
    /\ edits = MaxEdits
    /\ conflict = NULL
    /\ pendingTaskUpdate = NULL

-----------------------------------------------------------------------------
(* Properties of the life of a proposal and of the project's task set      *)

\* C26 (as claimed): rejecting a proposal leaves the project's tasks as they
\* are, and while no proposal is pending (every proposal generated so far
\* has been confirmed or rejected) no step applies one: the project's tasks
\* stay as they are.
C26_AppliedOnlyWhilePending ==
    [][ /\ lastAction' = "handleRejectChanges" => tasks' = tasks
        /\ proposedChanges = <<>> /\ pendingNewTasks = <<>> =>
              tasks' = tasks ]_vars

\* C27 (as claimed): in every state no two tasks of the project have the
\* same id.
C27_IdsUnique ==
    \A i, j \in DOMAIN tasks : tasks[i].id = tasks[j].id => i = j

\* C28 (as claimed): a step that is not a delete keeps every task of the
\* project (a row drop keeps their number as well: it permutes them), and a
\* delete removes the tasks of one id.
C28_RemovedOnlyByDelete ==
    [][ /\ lastAction' # "handleTaskDelete" => TaskIdSet(tasks) \subseteq TaskIdSet(tasks')
        /\ lastAction' = "handleRowDrop" => Len(tasks') = Len(tasks)
        /\ lastAction' = "handleTaskDelete" =>
              Cardinality(TaskIdSet(tasks) \ TaskIdSet(tasks')) <= 1 ]_vars

\* C29 (as claimed): in every state no task of the project carries isNew;
\* only the new tasks of the pending proposal do.
C29_IsNewOnlyWhilePending ==
    /\ \A i \in DOMAIN tasks : "isNew" \notin DOMAIN tasks[i]
    /\ \A j \in DOMAIN pendingNewTasks : IsNewTask(pendingNewTasks[j])

\* C30 (as claimed): starting from the built-in project, in every state
\* reached by manual edits, proposals answered to an earlier state of the
\* project and confirmed or rejected, insertions, deletions, module
\* additions and row drops, every task starts strictly after the end of each
\* of its dependencies present in the project.
C30_ProjectStaysConsistent == Consistent(tasks)

====
